---- MODULE Spec2Model ----
(***************************************************************************)
(* Model of s26604_2025.py: the NCBIRetriever client (search_taxid,        *)
(* fetch_records), the length filter, the CSV writer, the chart renderer   *)
(* and the orchestrator main().                                            *)
(*                                                                         *)
(* Python values are modelled as follows.                                  *)
(*   - an object is the function from its present attribute names to their *)
(*     values, so hasattr(o, a) is  a \in DOMAIN o;                        *)
(*   - a str that the code converts to or from an int is the sequence of   *)
(*     its characters; every other str is an opaque string;                *)
(*   - a return value is a tagged record (None, an int, a list, a str);    *)
(*   - GenBank text is the sequence of the records SeqIO.parse yields from *)
(*     it (the grammar belongs to Biopython), the empty text being << >>;  *)
(*   - the file system is a function from file names to contents.          *)
(***************************************************************************)
EXTENDS Integers, Sequences, FiniteSets, TLC

VARIABLES
    retriever,        \* the NCBIRetriever instance (attribute name -> value)
    ret,              \* value returned by the most recent client call
    sent,             \* Entrez requests issued by the most recent client call
    op,               \* the most recent client call and its arguments
    goodSession,      \* handles and count of the latest search that returned a count
    pc,               \* position of main()
    taxid,            \* main: taxid
    rawMin, rawMax,   \* main: the two strings typed for the length bounds
    min_len, max_len, \* main: int(rawMin), int(rawMax)
    count,            \* main: value returned by search_taxid
    all_records_text, \* main: value returned by fetch_records
    filtered_data,    \* main: value returned by filter_and_parse_sequences
    fs,               \* file system: file name -> contents
    figOpen,          \* pyplot holds an open figure
    ioFail,           \* which output write raised ("none", "csv", "chart")
    exc,              \* exception that left main() uncaught ("none" if none)
    exitCode          \* process exit status (-1 while running)

clientVars == <<retriever, ret, sent, op, goodSession>>
mainVars == <<pc, taxid, rawMin, rawMax, min_len, max_len, count,
              all_records_text, filtered_data, fs, figOpen, ioFail, exc, exitCode>>
vars == <<retriever, ret, sent, op, goodSession, pc, taxid, rawMin, rawMax,
          min_len, max_len, count, all_records_text, filtered_data, fs,
          figOpen, ioFail, exc, exitCode>>

(***************************************************************************)
(* Bounds of the model.                                                    *)
(***************************************************************************)
MaxRecs == 3      \* records in one fetched text
MaxSeqLen == 2    \* longest nucleotide sequence of a record

(***************************************************************************)
(* Python values.                                                          *)
(***************************************************************************)
None == [kind |-> "None"]
IntVal(n) == [kind |-> "int", val |-> n]
EmptyList == [kind |-> "list"]
StrVal(t) == [kind |-> "str", val |-> t]

\* not x, for the values main() tests
Falsy(v) ==
    \/ v.kind = "None"
    \/ v.kind = "int" /\ v.val = 0
    \/ v.kind = "list"
    \/ v.kind = "str" /\ v.val = << >>

HasAttr(obj, a) == a \in DOMAIN obj

SetAttr(obj, a, v) ==
    [x \in (DOMAIN obj) \cup {a} |-> IF x = a THEN v ELSE obj[x]]

Min(a, b) == IF a <= b THEN a ELSE b

(***************************************************************************)
(* int(str) and str(int) on decimal numerals.                              *)
(***************************************************************************)
DigitChars == <<"0", "1", "2", "3", "4", "5", "6", "7", "8", "9">>

IsDigit(c) == \E i \in 1..10 : DigitChars[i] = c

DigitVal(c) == (CHOOSE i \in 1..10 : DigitChars[i] = c) - 1

RECURSIVE DigitsToNat(_)
DigitsToNat(s) ==
    IF Len(s) = 0 THEN 0
    ELSE 10 * DigitsToNat(SubSeq(s, 1, Len(s) - 1)) + DigitVal(s[Len(s)])

AllDigits(s) == Len(s) > 0 /\ \A i \in 1..Len(s) : IsDigit(s[i])

\* int(s) succeeds: an optional sign followed by at least one digit
IsNumeral(s) ==
    \/ AllDigits(s)
    \/ Len(s) > 1 /\ s[1] \in {"-", "+"} /\ AllDigits(Tail(s))

\* int(s) for a numeral s
StrToInt(s) ==
    IF s[1] = "-" THEN 0 - DigitsToNat(Tail(s))
    ELSE IF s[1] = "+" THEN DigitsToNat(Tail(s))
    ELSE DigitsToNat(s)

RECURSIVE NatToDigits(_)
NatToDigits(n) ==
    IF n < 10 THEN <<DigitChars[n + 1]>>
    ELSE NatToDigits(n \div 10) \o <<DigitChars[(n % 10) + 1]>>

\* str(n)
IntToStr(n) == IF n < 0 THEN <<"-">> \o NatToDigits(0 - n) ELSE NatToDigits(n)

(***************************************************************************)
(* Inputs: what the user types and what the service answers.               *)
(***************************************************************************)
Emails == {"user@example.org"}
ApiKeys == {"key"}
Taxids == {"9606", "562"}
\* what the user types at the two length prompts
MinInputs == {<<"0">>, <<"1">>, <<"2">>, <<"x">>}
MaxInputs == {<<"1">>, <<"2">>, << >>}

Ids == {"A", "B"}
Descriptions == {"d"}
SeqOfLen(n) == [i \in 1..n |-> "a"]
GbRecords ==
    {[id |-> i, seq |-> SeqOfLen(n), description |-> d] :
        i \in Ids, n \in 0..MaxSeqLen, d \in Descriptions}

SeqsUpTo(S, n) == UNION {[1..k -> S] : k \in 0..n}
Texts == SeqsUpTo(GbRecords, MaxRecs)

\* answer to the taxonomy efetch: the call raises, or Entrez.read gives a list
TaxReplies ==
    {[status |-> "raise", records |-> << >>],
     [status |-> "ok", records |-> << >>],
     [status |-> "ok", records |-> <<[ScientificName |-> "Homo sapiens"]>>]}

WebEnvs == {"MCID_1", "MCID_2"}
QueryKeys == {"1", "2"}
CountStrs == {<<"0">>, <<"1">>, <<"2">>, <<"x">>}
\* answer to esearch: the call raises, or Entrez.read gives a result; with
\* usehistory="y" a result carries Count, WebEnv and QueryKey together (Count
\* may be text that int() rejects)
SearchReplies ==
    {[status |-> "raise", Count |-> << >>, WebEnv |-> "", QueryKey |-> ""]}
    \cup {[status |-> "ok", Count |-> c, WebEnv |-> w, QueryKey |-> k] :
            c \in CountStrs, w \in WebEnvs, k \in QueryKeys}

\* answer to the nucleotide efetch: the call raises, or handle.read() gives text
FetchReplies(texts) ==
    {[status |-> "raise", text |-> << >>]}
    \cup {[status |-> "ok", text |-> t] : t \in texts}

(***************************************************************************)
(* NCBIRetriever                                                           *)
(***************************************************************************)
NCBIRetriever(email, api_key) == [a \in {"email", "api_key"} |->
                                    IF a = "email" THEN email ELSE api_key]

TaxonomyRequest(id) == [api |-> "efetch", db |-> "taxonomy", id |-> id]
SearchRequest(id) ==
    [api |-> "esearch", db |-> "nucleotide",
     term |-> <<"txid", id, "[Organism]">>, usehistory |-> "y"]
FetchRequest(start, batch, webenv, query_key) ==
    [api |-> "efetch", db |-> "nucleotide", rettype |-> "gb", retmode |-> "text",
     retstart |-> start, retmax |-> batch, webenv |-> webenv,
     query_key |-> query_key]

\* search_taxid on the wrong side of the count test: the session is stored
\* before the zero-count return
search_taxid_storeFirst(self, id, tax, res) ==
    IF tax.status = "raise" \/ Len(tax.records) = 0
    THEN [self |-> self, ret |-> None, sent |-> <<TaxonomyRequest(id)>>]
    ELSE IF res.status = "raise" \/ ~IsNumeral(res.Count)
    THEN [self |-> self, ret |-> None,
          sent |-> <<TaxonomyRequest(id), SearchRequest(id)>>]
    ELSE LET n == StrToInt(res.Count)
             stored == SetAttr(SetAttr(SetAttr(self, "webenv", res.WebEnv),
                                       "query_key", res.QueryKey), "count", n)
         IN [self |-> stored,
             ret |-> IF n = 0 THEN None ELSE IntVal(n),
             sent |-> <<TaxonomyRequest(id), SearchRequest(id)>>]

\* search_taxid(self, taxid): the new object, the value returned and the
\* requests issued, given the service's two answers
search_taxid(self, id, tax, res) ==
    IF tax.status = "raise" \/ Len(tax.records) = 0
    THEN \* efetch raised, or records[0] raised IndexError: except -> None
         [self |-> self, ret |-> None, sent |-> <<TaxonomyRequest(id)>>]
    ELSE IF res.status = "raise" \/ ~IsNumeral(res.Count)
    THEN \* esearch raised, or int(Count) raised ValueError: except -> None
         [self |-> self, ret |-> None,
          sent |-> <<TaxonomyRequest(id), SearchRequest(id)>>]
    ELSE LET n == StrToInt(res.Count) IN
         IF n = 0
         THEN [self |-> self, ret |-> None,
               sent |-> <<TaxonomyRequest(id), SearchRequest(id)>>]
         ELSE [self |-> SetAttr(SetAttr(SetAttr(self, "webenv", res.WebEnv),
                                        "query_key", res.QueryKey), "count", n),
               ret |-> IntVal(n),
               sent |-> <<TaxonomyRequest(id), SearchRequest(id)>>]

BatchCap == 500

\* fetch_records without the cap
batch_size_uncapped(max_records) == max_records

\* batch_size = min(max_records, 500)
batch_size(max_records) == Min(max_records, BatchCap)

\* fetch_records without the hasattr guard: absent handles are sent as ""
fetch_records_unguarded(self, start, max_records, rep) ==
    [ret |-> IF rep.status = "raise" THEN StrVal(<< >>) ELSE StrVal(rep.text),
     sent |-> <<FetchRequest(start, batch_size(max_records),
                             IF HasAttr(self, "webenv") THEN self["webenv"] ELSE "",
                             IF HasAttr(self, "query_key") THEN self["query_key"] ELSE "")>>]

\* fetch_records(self, start, max_records): the value returned and the
\* requests issued, given the service's answer; self is not assigned to
fetch_records(self, start, max_records, rep) ==
    IF ~HasAttr(self, "webenv") \/ ~HasAttr(self, "query_key")
    THEN [ret |-> EmptyList, sent |-> << >>]
    ELSE [ret |-> IF rep.status = "raise" THEN StrVal(<< >>) ELSE StrVal(rep.text),
          sent |-> <<FetchRequest(start, batch_size(max_records),
                                  self["webenv"], self["query_key"])>>]

(***************************************************************************)
(* filter_and_parse_sequences                                              *)
(***************************************************************************)
Summary(record) ==
    [accession |-> record.id, length |-> Len(record.seq),
     description |-> record.description]

\* the loop of filter_and_parse_sequences from record i on, filtered_data = acc
RECURSIVE FilterLoop(_, _, _, _, _)
FilterLoop(gb_text, i, lo, hi, acc) ==
    IF i > Len(gb_text) THEN acc
    ELSE LET seq_len == Len(gb_text[i].seq) IN
         FilterLoop(gb_text, i + 1, lo, hi,
                    IF lo <= seq_len /\ seq_len <= hi
                    THEN Append(acc, Summary(gb_text[i]))
                    ELSE acc)

\* the filter with the upper bound exclusive
RECURSIVE FilterLoopExclusive(_, _, _, _, _)
FilterLoopExclusive(gb_text, i, lo, hi, acc) ==
    IF i > Len(gb_text) THEN acc
    ELSE LET seq_len == Len(gb_text[i].seq) IN
         FilterLoopExclusive(gb_text, i + 1, lo, hi,
                    IF lo <= seq_len /\ seq_len < hi
                    THEN Append(acc, Summary(gb_text[i]))
                    ELSE acc)

filter_and_parse_sequences_exclusive(gb_text, lo, hi) ==
    FilterLoopExclusive(gb_text, 1, lo, hi, << >>)

filter_and_parse_sequences(gb_text, lo, hi) ==
    FilterLoop(gb_text, 1, lo, hi, << >>)

(***************************************************************************)
(* Files                                                                   *)
(***************************************************************************)
CsvName(id) == <<"taxid_", id, "_filtered.csv">>
ChartName(id) == <<"taxid_", id, "_chart.png">>
FileNames == {CsvName(t) : t \in Taxids} \cup {ChartName(t) : t \in Taxids}

Absent == [kind |-> "absent"]

(***************************************************************************)
(* save_csv                                                                *)
(***************************************************************************)
FieldNames == <<"accession", "length", "description">>

\* csv.DictWriter.writerow: the cells in fieldnames order, the int as text
CsvRow(row) == <<row.accession, IntToStr(row.length), row.description>>

\* what save_csv leaves in the file when nothing raises
CsvContents(data) ==
    [kind |-> "csv", header |-> FieldNames,
     rows |-> [i \in 1..Len(data) |-> CsvRow(data[i])]]

\* a writer opened in append mode: earlier rows are kept
save_csv_append(data, filename, fsys, ok) ==
    IF ~ok THEN [fs |-> fsys, raised |-> "OSError"]
    ELSE [fs |-> [fsys EXCEPT ![filename] =
                    IF fsys[filename].kind = "csv"
                    THEN [kind |-> "csv", header |-> FieldNames,
                          rows |-> fsys[filename].rows \o CsvContents(data).rows]
                    ELSE CsvContents(data)],
          raised |-> "none"]

\* save_csv(data, filename): the file system afterwards and the exception
\* raised; ok says whether open(filename, "w") succeeds
save_csv(data, filename, fsys, ok) ==
    IF ~ok THEN [fs |-> fsys, raised |-> "OSError"]
    ELSE [fs |-> [fsys EXCEPT ![filename] = CsvContents(data)],
          raised |-> "none"]

(***************************************************************************)
(* plot_data                                                               *)
(***************************************************************************)
\* insertion behind every element whose key is not smaller: what a stable
\* sort with reverse=True does with one more element
RECURSIVE InsertDesc(_, _)
InsertDesc(s, x) ==
    IF s = << >> THEN <<x>>
    ELSE IF Head(s).length >= x.length
         THEN <<Head(s)>> \o InsertDesc(Tail(s), x)
         ELSE <<x>> \o s

RECURSIVE SortLoop(_, _, _)
SortLoop(data, i, acc) ==
    IF i > Len(data) THEN acc
    ELSE SortLoop(data, i + 1, InsertDesc(acc, data[i]))

\* insertion in front of equal keys: ties come out in reverse input order
RECURSIVE InsertDescUnstable(_, _)
InsertDescUnstable(s, x) ==
    IF s = << >> THEN <<x>>
    ELSE IF Head(s).length > x.length
         THEN <<Head(s)>> \o InsertDescUnstable(Tail(s), x)
         ELSE <<x>> \o s

RECURSIVE SortLoopUnstable(_, _, _)
SortLoopUnstable(data, i, acc) ==
    IF i > Len(data) THEN acc
    ELSE SortLoopUnstable(data, i + 1, InsertDescUnstable(acc, data[i]))

sorted_by_length_reverse_unstable(data) == SortLoopUnstable(data, 1, << >>)

\* sorted(data, key=lambda x: x["length"], reverse=True)
sorted_by_length_reverse(data) == SortLoop(data, 1, << >>)

\* what savefig leaves in the file: the plotted series
ChartContents(data_sorted) ==
    [kind |-> "png",
     accessions |-> [i \in 1..Len(data_sorted) |-> data_sorted[i].accession],
     lengths |-> [i \in 1..Len(data_sorted) |-> data_sorted[i].length]]

\* plot_data(data, filename): the file system afterwards, whether the figure
\* is still open and the exception raised; ok says whether savefig succeeds.
\* plt.figure() opens the figure, plt.close() is the last statement.
plot_data(data, filename, fsys, ok) ==
    LET data_sorted == sorted_by_length_reverse(data) IN
    IF ok
    THEN [fs |-> [fsys EXCEPT ![filename] = ChartContents(data_sorted)],
          figOpen |-> FALSE, raised |-> "none"]
    ELSE [fs |-> fsys, figOpen |-> TRUE, raised |-> "OSError"]

(***************************************************************************)
(* Initial state: the client constructed, main() not yet started.  The     *)
(* output files either do not exist or hold what an earlier run left.      *)
(***************************************************************************)
OldData == <<[accession |-> "OLD", length |-> 7, description |-> "old"]>>
Stale(f) == IF f[3] = "_filtered.csv" THEN CsvContents(OldData)
            ELSE ChartContents(OldData)
InitialFiles == {[f \in FileNames |-> Absent], [f \in FileNames |-> Stale(f)]}

NoSession == [webenv |-> "", query_key |-> "", count |-> 0]
NoCall == [name |-> "none", taxid |-> "", start |-> 0, max_records |-> 0]

\* email and api_key are the first two prompts of main(); the constructor
\* stores them and assigns no session attribute
Init ==
    /\ \E email \in Emails, api_key \in ApiKeys :
          retriever = NCBIRetriever(email, api_key)
    /\ ret = None
    /\ sent = << >>
    /\ op = NoCall
    /\ goodSession = NoSession
    /\ pc = "start"
    /\ taxid = ""
    /\ rawMin = << >>
    /\ rawMax = << >>
    /\ min_len = 0
    /\ max_len = 0
    /\ count = None
    /\ all_records_text = None
    /\ filtered_data = << >>
    /\ fs \in InitialFiles
    /\ figOpen = FALSE
    /\ ioFail = "none"
    /\ exc = "none"
    /\ exitCode = -1

(***************************************************************************)
(* Calls on the client.                                                    *)
(***************************************************************************)
\* retriever.search_taxid(id), answered by tax and res
CallSearch(id, tax, res) ==
    LET r == search_taxid(retriever, id, tax, res) IN
    /\ retriever' = r.self
    /\ ret' = r.ret
    /\ sent' = r.sent
    /\ op' = [name |-> "search_taxid", taxid |-> id, start |-> 0, max_records |-> 0]
    /\ goodSession' = IF r.ret.kind = "int"
                      THEN [webenv |-> res.WebEnv, query_key |-> res.QueryKey,
                            count |-> r.ret.val]
                      ELSE goodSession

\* retriever.fetch_records(start, max_records), answered by rep
CallFetch(start, max_records, rep) ==
    LET r == fetch_records(retriever, start, max_records, rep) IN
    /\ ret' = r.ret
    /\ sent' = r.sent
    /\ op' = [name |-> "fetch_records", taxid |-> "", start |-> start,
              max_records |-> max_records]
    /\ UNCHANGED <<retriever, goodSession>>

\* arguments a caller of the client may pass
Starts == {0, 100}
MaxRecordsArgs == {0, 1, 100, 499, 500, 501, 9999}
ClientTexts == SeqsUpTo(GbRecords, 1)

SearchTaxid ==
    /\ \E id \in Taxids, tax \in TaxReplies, res \in SearchReplies :
          CallSearch(id, tax, res)
    /\ UNCHANGED mainVars

FetchRecords ==
    /\ \E start \in Starts, max_records \in MaxRecordsArgs,
          rep \in FetchReplies(ClientTexts) :
          CallFetch(start, max_records, rep)
    /\ UNCHANGED mainVars

ClientNext == SearchTaxid \/ FetchRecords

\* any sequence of search_taxid and fetch_records calls on one client
ClientSpec == Init /\ [][ClientNext]_vars

(***************************************************************************)
(* main()                                                                  *)
(***************************************************************************)
\* the answers the service gives within one run of main()
MainSearchReplies ==
    {res \in SearchReplies :
        res.status = "ok" =>
            res.WebEnv = "MCID_1" /\ res.QueryKey = "1" /\ res.Count # <<"1">>}

\* main() returns: the interpreter exits with status 0
Return ==
    /\ pc' = "exit"
    /\ exitCode' = 0
    /\ exc' = "none"

\* an exception leaves main() uncaught: traceback, exit status 1
Raise(e) ==
    /\ pc' = "exit"
    /\ exitCode' = 1
    /\ exc' = e

\* lines 112-116: the prompts, and int() of the two length bounds
ReadInputs ==
    /\ pc = "start"
    /\ \E t \in Taxids, a \in MinInputs, b \in MaxInputs :
          /\ taxid' = t
          /\ rawMin' = a
          /\ rawMax' = b
          /\ IF IsNumeral(a) /\ IsNumeral(b)
             THEN /\ min_len' = StrToInt(a)
                  /\ max_len' = StrToInt(b)
                  /\ pc' = "search"
                  /\ UNCHANGED <<exc, exitCode>>
             ELSE /\ Raise("ValueError")
                  /\ UNCHANGED <<min_len, max_len>>
    /\ UNCHANGED <<clientVars, count, all_records_text, filtered_data, fs,
                   figOpen, ioFail>>

\* main() without the early return after the search
MainSearch_noReturn ==
    /\ pc = "search"
    /\ \E tax \in TaxReplies, res \in MainSearchReplies :
          CallSearch(taxid, tax, res)
    /\ count' = ret'
    /\ pc' = "fetch"
    /\ UNCHANGED <<exc, exitCode>>
    /\ UNCHANGED <<taxid, rawMin, rawMax, min_len, max_len, all_records_text,
                   filtered_data, fs, figOpen, ioFail>>

\* lines 120-123: count = retriever.search_taxid(taxid); if not count: return
MainSearch ==
    /\ pc = "search"
    /\ \E tax \in TaxReplies, res \in MainSearchReplies :
          CallSearch(taxid, tax, res)
    /\ count' = ret'
    /\ IF Falsy(ret')
       THEN Return
       ELSE pc' = "fetch" /\ UNCHANGED <<exc, exitCode>>
    /\ UNCHANGED <<taxid, rawMin, rawMax, min_len, max_len, all_records_text,
                   filtered_data, fs, figOpen, ioFail>>

\* line 126: all_records_text = retriever.fetch_records(start=0, max_records=100)
MainFetch ==
    /\ pc = "fetch"
    /\ \E rep \in FetchReplies(Texts) : CallFetch(0, 100, rep)
    /\ all_records_text' = ret'
    /\ pc' = "filter"
    /\ UNCHANGED <<taxid, rawMin, rawMax, min_len, max_len, count,
                   filtered_data, fs, figOpen, ioFail, exc, exitCode>>

\* main() without the test for an empty filter result
MainFilter_noEmptyCheck ==
    /\ pc = "filter"
    /\ IF all_records_text.kind = "str"
       THEN /\ filtered_data' = filter_and_parse_sequences(
                                    all_records_text.val, min_len, max_len)
            /\ pc' = "save_csv"
            /\ UNCHANGED <<exc, exitCode>>
       ELSE /\ Raise("TypeError")
            /\ UNCHANGED filtered_data
    /\ UNCHANGED <<clientVars, taxid, rawMin, rawMax, min_len, max_len, count,
                   all_records_text, fs, figOpen, ioFail>>

\* lines 129-133: filtered_data = filter_and_parse_sequences(...);
\* if not filtered_data: return.  StringIO of a list raises TypeError.
MainFilter ==
    /\ pc = "filter"
    /\ IF all_records_text.kind = "str"
       THEN /\ filtered_data' = filter_and_parse_sequences(
                                    all_records_text.val, min_len, max_len)
            /\ IF filtered_data' = << >>
               THEN Return
               ELSE pc' = "save_csv" /\ UNCHANGED <<exc, exitCode>>
       ELSE /\ Raise("TypeError")
            /\ UNCHANGED filtered_data
    /\ UNCHANGED <<clientVars, taxid, rawMin, rawMax, min_len, max_len, count,
                   all_records_text, fs, figOpen, ioFail>>

\* main() with the table writer's failure caught and reported
MainSaveCsv_swallow ==
    /\ pc = "save_csv"
    /\ \E ok \in BOOLEAN :
          LET r == save_csv(filtered_data, CsvName(taxid), fs, ok) IN
          /\ fs' = r.fs
          /\ IF r.raised = "none"
             THEN pc' = "plot" /\ UNCHANGED <<ioFail, exc, exitCode>>
             ELSE ioFail' = "csv" /\ Return
    /\ UNCHANGED <<clientVars, taxid, rawMin, rawMax, min_len, max_len, count,
                   all_records_text, filtered_data, figOpen>>

\* lines 135, 138: save_csv(filtered_data, csv_file); nothing catches OSError
MainSaveCsv ==
    /\ pc = "save_csv"
    /\ \E ok \in BOOLEAN :
          LET r == save_csv(filtered_data, CsvName(taxid), fs, ok) IN
          /\ fs' = r.fs
          /\ IF r.raised = "none"
             THEN pc' = "plot" /\ UNCHANGED <<ioFail, exc, exitCode>>
             ELSE ioFail' = "csv" /\ Raise(r.raised)
    /\ UNCHANGED <<clientVars, taxid, rawMin, rawMax, min_len, max_len, count,
                   all_records_text, filtered_data, figOpen>>

\* lines 136, 139-141: plot_data(filtered_data, chart_file); return
MainPlot ==
    /\ pc = "plot"
    /\ \E ok \in BOOLEAN :
          LET r == plot_data(filtered_data, ChartName(taxid), fs, ok) IN
          /\ fs' = r.fs
          /\ figOpen' = r.figOpen
          /\ IF r.raised = "none"
             THEN Return /\ UNCHANGED ioFail
             ELSE ioFail' = "chart" /\ Raise(r.raised)
    /\ UNCHANGED <<clientVars, taxid, rawMin, rawMax, min_len, max_len, count,
                   all_records_text, filtered_data>>

Next ==
    \/ ReadInputs
    \/ MainSearch
    \/ MainFetch
    \/ MainFilter
    \/ MainSaveCsv
    \/ MainPlot

\* one run of main()
Spec == Init /\ [][Next]_vars

(***************************************************************************)
(* Properties                                                              *)
(***************************************************************************)
\* this run has written file f
Written(f) == f \in DOMAIN fs /\ fs[f] # Absent /\ fs[f] # Stale(f)

\* filter_and_parse_sequences has returned in this run
Filtered == all_records_text.kind = "str" /\ pc # "filter"

\* positions of the fetched text whose sequence length is within the bounds
InRange == {i \in 1..Len(all_records_text.val) :
              /\ min_len <= Len(all_records_text.val[i].seq)
              /\ Len(all_records_text.val[i].seq) <= max_len}

\* the k-th smallest element of a set of positions
Kth(S, k) == CHOOSE i \in S : Cardinality({j \in S : j < i}) = k - 1

\* C1: the filter returns exactly the records whose sequence length L has
\* min_len <= L <= max_len, in parse order, each with length = L; nothing in
\* range is dropped, nothing out of range is kept, and min_len > max_len
\* gives the empty result.
Thm_C1 ==
    Filtered =>
        /\ Len(filtered_data) = Cardinality(InRange)
        /\ \A k \in 1..Len(filtered_data) :
              LET record == all_records_text.val[Kth(InRange, k)] IN
              /\ filtered_data[k].accession = record.id
              /\ filtered_data[k].length = Len(record.seq)
              /\ filtered_data[k].description = record.description
              /\ min_len <= filtered_data[k].length
              /\ filtered_data[k].length <= max_len
        /\ (min_len > max_len => filtered_data = << >>)

\* three records, one too short, one in range, one too long: only the middle
\* one is returned
Wit_C1 ==
    /\ Filtered
    /\ Len(all_records_text.val) = 3
    /\ Len(all_records_text.val[1].seq) < min_len
    /\ Len(all_records_text.val[2].seq) >= min_len
    /\ Len(all_records_text.val[2].seq) <= max_len
    /\ Len(all_records_text.val[3].seq) > max_len
    /\ Len(filtered_data) = 1

\* search_taxid has returned in this run of main()
Searched == op.name # "none"

IsFetchRequest(r) == r.api = "efetch" /\ r.db = "nucleotide"

\* C2: when search_taxid returns no count, main() issues no fetch request,
\* creates neither file and terminates normally.
Thm_C2 ==
    (Searched /\ count = None) =>
        /\ pc = "exit"
        /\ exitCode = 0
        /\ exc = "none"
        /\ op.name = "search_taxid"
        /\ \A i \in 1..Len(sent) : ~IsFetchRequest(sent[i])
        /\ all_records_text = None
        /\ \A f \in FileNames : ~Written(f)

\* the search request itself was made and gave no count
Wit_C2 ==
    /\ Searched
    /\ count = None
    /\ Len(sent) = 2
    /\ pc = "exit"

Thm_C6 ==
    Written(CsvName(taxid)) =>
        LET file == fs[CsvName(taxid)] IN
        /\ file.header = <<"accession", "length", "description">>
        /\ Len(file.rows) = Len(filtered_data)
        /\ \A i \in 1..Len(file.rows) :
              /\ Len(file.rows[i]) = 3
              /\ file.rows[i][1] = filtered_data[i].accession
              /\ IsNumeral(file.rows[i][2])
              /\ StrToInt(file.rows[i][2]) = filtered_data[i].length
              /\ file.rows[i][3] = filtered_data[i].description

\* a table of two different rows written over an earlier run's table
Wit_C6 ==
    /\ Written(CsvName(taxid))
    /\ Len(filtered_data) >= 2
    /\ filtered_data[1] # filtered_data[2]
    /\ fs[ChartName(taxid)] = Stale(ChartName(taxid))

\* the plotted points, as (accession, length) pairs
Plotted ==
    LET chart == fs[ChartName(taxid)] IN
    [i \in 1..Len(chart.accessions) |->
        [accession |-> chart.accessions[i], length |-> chart.lengths[i]]]

\* the pairs plot_data was given
Given ==
    [i \in 1..Len(filtered_data) |->
        [accession |-> filtered_data[i].accession,
         length |-> filtered_data[i].length]]

OfLength(s, n) == SelectSeq(s, LAMBDA r : r.length = n)

\* C7: what plot_data plots is a permutation of the sequence the table
\* received, ordered by length non-increasing, records of equal length in
\* their original relative order; the input sequence is left unmodified.
Thm_C7 ==
    Written(ChartName(taxid)) =>
        /\ Len(fs[ChartName(taxid)].lengths) = Len(fs[ChartName(taxid)].accessions)
        /\ Len(Plotted) = Len(Given)
        /\ \A i, j \in 1..Len(Plotted) :
              i < j => Plotted[i].length >= Plotted[j].length
        /\ \A n \in {Given[i].length : i \in 1..Len(Given)}
                    \cup {Plotted[i].length : i \in 1..Len(Plotted)} :
              OfLength(Plotted, n) = OfLength(Given, n)
        /\ \A i \in 1..Len(filtered_data) :
              /\ fs[CsvName(taxid)].rows[i][1] = filtered_data[i].accession
              /\ StrToInt(fs[CsvName(taxid)].rows[i][2]) = filtered_data[i].length

\* two records of equal length and different accessions ahead of a longer one
Wit_C7 ==
    /\ Written(ChartName(taxid))
    /\ Len(filtered_data) = 3
    /\ filtered_data[1].length = filtered_data[2].length
    /\ filtered_data[1].accession # filtered_data[2].accession
    /\ filtered_data[3].length > filtered_data[1].length
    /\ Plotted[1] = Given[3]
    /\ Plotted[2] = Given[1]

\* C8 as stated: every run of main() ends with exit status 0.
CE_C8 == pc = "exit" => exitCode = 0

\* C8 amended: a run ends with status 0 exactly when both length bounds are
\* numerals and neither output write raises (so on a service error, on no
\* records and on an empty filter result); a non-numeric bound ends it with
\* an uncaught ValueError, a failed write with an uncaught OSError.
Thm_C8 ==
    pc = "exit" =>
        /\ exitCode \in {0, 1}
        /\ exitCode = 0 <=>
              (IsNumeral(rawMin) /\ IsNumeral(rawMax) /\ ioFail = "none")
        /\ exitCode = 0 <=> exc = "none"
        /\ exc = "ValueError" <=> ~(IsNumeral(rawMin) /\ IsNumeral(rawMax))
        /\ exc = "OSError" <=> ioFail # "none"
        /\ exc \in {"none", "ValueError", "OSError"}

\* the table could not be opened for writing
Wit_C8 ==
    /\ pc = "exit"
    /\ ioFail = "csv"
    /\ exitCode = 1

\* C9: once plot_data has been left, on any path, the figure is closed.
CE_C9 == pc = "exit" => ~figOpen

(***************************************************************************)
(* Properties of the client under any sequence of calls.                   *)
(***************************************************************************)
HoldsSession == HasAttr(retriever, "webenv") /\ HasAttr(retriever, "query_key")

\* C4: with a session, fetch_records sends retmax = min(max_records, 500):
\* never more than 500, and the caller's value when that is at most 500.
Thm_C4 ==
    (op.name = "fetch_records" /\ HoldsSession) =>
        /\ Len(sent) = 1
        /\ IsFetchRequest(sent[1])
        /\ sent[1].retstart = op.start
        /\ sent[1].retmax <= 500
        /\ op.max_records <= 500 => sent[1].retmax = op.max_records
        /\ op.max_records > 500 => sent[1].retmax = 500

\* a request for 9999 records goes out as 500
Wit_C4 ==
    /\ op.name = "fetch_records"
    /\ HoldsSession
    /\ op.max_records = 9999
    /\ Len(sent) = 1
    /\ sent[1].retmax = 500

\* C5: on a client no search of which has returned a count, fetch_records
\* returns an empty result, issues no request, raises nothing and leaves the
\* client as constructed.
Thm_C5 ==
    (op.name = "fetch_records" /\ goodSession = NoSession) =>
        /\ ret = EmptyList
        /\ sent = << >>
        /\ DOMAIN retriever = {"email", "api_key"}

Wit_C5 ==
    /\ op.name = "fetch_records"
    /\ goodSession = NoSession
    /\ ret = EmptyList

SessionAttrs == {"webenv", "query_key", "count"}

\* the session fields are all absent, or all present with the values of the
\* latest search that returned a count; a request carries those handles
SessionInv ==
    /\ \/ /\ DOMAIN retriever \cap SessionAttrs = {}
          /\ goodSession = NoSession
       \/ /\ SessionAttrs \subseteq DOMAIN retriever
          /\ retriever["count"] > 0
          /\ retriever["webenv"] = goodSession.webenv
          /\ retriever["query_key"] = goodSession.query_key
          /\ retriever["count"] = goodSession.count
    /\ (op.name = "fetch_records" /\ sent # << >>) =>
          /\ goodSession # NoSession
          /\ sent[1].webenv = goodSession.webenv
          /\ sent[1].query_key = goodSession.query_key

\* a search that returns None, and every fetch, leaves the client unchanged
SessionStep ==
    (op'.name = "fetch_records" \/ ret' = None) => retriever' = retriever

\* C10: after any sequence of search_taxid and fetch_records calls the session
\* fields are all absent or all present with count > 0 and equal to the
\* values of the latest search that returned a count; a search returning None
\* and every fetch leave them unchanged; fetch_records sends only such
\* handles.
Thm_C10 == []SessionInv /\ [][SessionStep]_vars

\* a search that failed after one that succeeded
Wit_C10 ==
    /\ op.name = "search_taxid"
    /\ ret = None
    /\ goodSession # NoSession
    /\ HoldsSession

====
